---------------------------- MODULE Spec2Model ----------------------------
(***************************************************************************)
(* Striking-distance keyword report (src/app.py): the button handler of    *)
(* main() as a state machine.  One run filters the keyword rows, crawls    *)
(* the distinct URLs on a thread pool, checks keyword presence per row,    *)
(* splits the rows into datasets, scores and sorts the striking-distance   *)
(* rows.  Text is modelled by TLA+ strings, data frames by sequences of    *)
(* records, one per row, in the order of the frame.                        *)
(***************************************************************************)
EXTENDS Integers, Sequences, FiniteSets, Bags

VARIABLES
    pc,                 \* position of the handler (main thread)
    df,                 \* st.session_state.keyword_data.copy()
    has_impressions,    \* 'impressions' in df.columns
    position_range,     \* sidebar slider <<lo, hi>>
    min_impressions,    \* sidebar number input
    blocklist_input,    \* sidebar text area, as its sequence of lines
    max_urls,           \* sidebar slider
    crawl_option,       \* sidebar radio
    network,            \* the answers requests.get can meet in this run
    filtered_df,        \* rows kept so far
    blocklist_removed,  \* rows removed by the blocklist
    term_i,             \* index of the next blocklist term
    unique_urls,        \* filtered_df['url'].unique()[:max_urls]
    futures,            \* executor futures, in submission order
    yielded,            \* futures as_completed has handed to the loop
    completed,          \* progress counter of the loop
    crawl_results,      \* dict url -> page entry
    row_i,              \* index of the next row of the presence loop
    results,            \* rows with presence flags
    urls_not_found,     \* rows whose URL has no successful entry
    all_checks_passed,  \* dataset: fully optimized rows
    striking_distance,  \* dataset: rows with an optimization gap
    opportunities_df    \* calculate_striking_distance_opportunities(...)

vars == <<pc, df, has_impressions, position_range, min_impressions,
          blocklist_input, max_urls, crawl_option, network, filtered_df,
          blocklist_removed, term_i, unique_urls, futures, yielded,
          completed, crawl_results, row_i, results, urls_not_found,
          all_checks_passed, striking_distance, opportunities_df>>

inputs == <<df, has_impressions, position_range, min_impressions,
            blocklist_input, max_urls, crawl_option, network>>
filterVars == <<filtered_df, blocklist_removed, term_i>>
crawlVars == <<unique_urls, futures, yielded, completed, crawl_results>>
matchVars == <<row_i, results, urls_not_found>>
reportVars == <<all_checks_passed, striking_distance, opportunities_df>>

-----------------------------------------------------------------------------
(* Bounds of the model *)

MaxRecords == 2          \* rows of the uploaded keyword data
MaxCrawlUrls == 6        \* distinct URLs of the crawl-only runs
SmallMaxUrls == 2        \* "Max URLs to crawl" of the scaled-down runs
MaxScorePosition == 25   \* positions 1..MaxScorePosition of the scorer runs

-----------------------------------------------------------------------------
(* Sequences *)

Range(s) == {s[i] : i \in DOMAIN s}

Min(a, b) == IF a < b THEN a ELSE b

\* s[:n]
Prefix(s, n) == SubSeq(s, 1, Min(Len(s), n))

\* Series.unique(): the values in order of first appearance
RECURSIVE Unique(_)
Unique(s) ==
    IF s = <<>> THEN <<>>
    ELSE LET init == Unique(SubSeq(s, 1, Len(s) - 1))
             last == s[Len(s)]
         IN  IF last \in Range(init) THEN init ELSE Append(init, last)

Column(d, f) == [i \in DOMAIN d |-> d[i][f]]

-----------------------------------------------------------------------------
(* Strings *)

LowerChar(c) ==
    CASE c = "A" -> "a" [] c = "B" -> "b" [] c = "C" -> "c" [] c = "D" -> "d"
      [] c = "E" -> "e" [] c = "F" -> "f" [] c = "G" -> "g" [] c = "H" -> "h"
      [] c = "I" -> "i" [] c = "J" -> "j" [] c = "K" -> "k" [] c = "L" -> "l"
      [] c = "M" -> "m" [] c = "N" -> "n" [] c = "O" -> "o" [] c = "P" -> "p"
      [] c = "Q" -> "q" [] c = "R" -> "r" [] c = "S" -> "s" [] c = "T" -> "t"
      [] c = "U" -> "u" [] c = "V" -> "v" [] c = "W" -> "w" [] c = "X" -> "x"
      [] c = "Y" -> "y" [] c = "Z" -> "z" [] OTHER -> c

\* str.lower(): every character lowered (the string is taken by halves to
\* keep the recursion shallow, and bound as a value before it is taken apart)
RECURSIVE Lower(_)
Lower(s) ==
    CHOOSE lowered \in
        {IF Len(t) <= 1 THEN LowerChar(t)
         ELSE Lower(SubSeq(t, 1, Len(t) \div 2))
              \o Lower(SubSeq(t, Len(t) \div 2 + 1, Len(t))) : t \in {s}} : TRUE

\* str.strip(), for the blank the model's strings use
RECURSIVE Strip(_)
Strip(s) ==
    IF Len(s) = 0 THEN ""
    ELSE IF SubSeq(s, 1, 1) = " " THEN Strip(SubSeq(s, 2, Len(s)))
    ELSE IF SubSeq(s, Len(s), Len(s)) = " " THEN Strip(SubSeq(s, 1, Len(s) - 1))
    ELSE s

\* needle in text (Python's substring test)
Contains(text, needle) ==
    \E i \in 1..(Len(text) - Len(needle) + 1) :
        SubSeq(text, i, i + Len(needle) - 1) = needle

\* re.search(pattern, text) for patterns made of literal characters and the
\* metacharacter "." (any character): Series.str.contains has regex=True
RegexMatchAt(pattern, text, i) ==
    \A k \in 1..Len(pattern) :
        \/ SubSeq(pattern, k, k) = "."
        \/ SubSeq(pattern, k, k) = SubSeq(text, i + k - 1, i + k - 1)

RegexSearch(pattern, text) ==
    \E i \in 1..(Len(text) - Len(pattern) + 1) : RegexMatchAt(pattern, text, i)

\* re.compile(pattern) succeeds: of the patterns that do not compile the model
\* has those with a "(" that no ")" closes (re.error: missing ), unterminated
\* subpattern); Series.str.contains compiles the pattern before it looks at
\* the rows
RegexCompiles(pattern) ==
    \A k \in 1..Len(pattern) :
        SubSeq(pattern, k, k) = "(" =>
            \E m \in (k + 1)..Len(pattern) : SubSeq(pattern, m, m) = ")"

\* url.split('/')[-1]
RECURSIVE LastSegment(_)
LastSegment(url) ==
    IF Len(url) = 0 THEN ""
    ELSE IF SubSeq(url, Len(url), Len(url)) = "/" THEN ""
    ELSE LastSegment(SubSeq(url, 1, Len(url) - 1)) \o SubSeq(url, Len(url), Len(url))

-----------------------------------------------------------------------------
(* Step 1: filters (main, lines 349-364) *)

\* a slip: the blocklist run on the unfiltered frame
PositionFilterSkipped(d, range) == d

\* df[(df['position'] >= lo) & (df['position'] <= hi)]
PositionFilter(d, range) ==
    LET Keep(r) == r.position >= range[1] /\ r.position <= range[2]
    IN  SelectSeq(d, Keep)

\* if 'impressions' in columns: filtered_df[filtered_df['impressions'] >= min]
ImpressionsFilter(d, present, minimum) ==
    LET Keep(r) == r.impressions >= minimum
    IN  IF present THEN SelectSeq(d, Keep) ELSE d

\* the text area is empty (falsy) when its only line is empty
InputGiven(lines) == lines # <<"">>

\* [term.strip().lower() for term in lines if term.strip()]
RECURSIVE ParseBlocklist(_)
ParseBlocklist(lines) ==
    IF lines = <<>> THEN <<>>
    ELSE (IF Strip(Head(lines)) # "" THEN <<Lower(Strip(Head(lines)))>> ELSE <<>>)
         \o ParseBlocklist(Tail(lines))

Blocklist == IF InputGiven(blocklist_input) THEN ParseBlocklist(blocklist_input) ELSE <<>>

\* filtered_df['keyword'].str.lower().str.contains(term, na=False)
KeywordHasTerm(keyword, term) == \E lowered \in {Lower(keyword)} : RegexSearch(term, lowered)

\* the rows the pass for term removes, and the rows it keeps
BlocklistMatches(d, term) ==
    LET Keep(r) == KeywordHasTerm(r.keyword, term)
    IN  SelectSeq(d, Keep)

\* a slip: the frame not shrunk by the pass
BlocklistKeepsAll(d, term) == d

BlocklistKeeps(d, term) ==
    LET Keep(r) == ~KeywordHasTerm(r.keyword, term)
    IN  SelectSeq(d, Keep)

FilterPosition ==
    /\ pc = "filter_position"
    /\ filtered_df' = PositionFilter(df, position_range)
    /\ pc' = "filter_impressions"
    /\ UNCHANGED <<inputs, blocklist_removed, term_i, crawlVars, matchVars, reportVars>>

FilterImpressions ==
    /\ pc = "filter_impressions"
    /\ filtered_df' = ImpressionsFilter(filtered_df, has_impressions, min_impressions)
    /\ blocklist_removed' = <<>>
    /\ term_i' = 1
    /\ pc' = "blocklist"
    /\ UNCHANGED <<inputs, crawlVars, matchVars, reportVars>>

\* one iteration of "for term in blocklist"; a term that is not a regular
\* expression makes str.contains raise re.error, which nothing in the handler
\* catches
BlocklistPass ==
    /\ pc = "blocklist"
    /\ term_i <= Len(Blocklist)
    /\ IF RegexCompiles(Blocklist[term_i])
       THEN /\ blocklist_removed' =
                   blocklist_removed \o BlocklistMatches(filtered_df, Blocklist[term_i])
            /\ filtered_df' = BlocklistKeeps(filtered_df, Blocklist[term_i])
            /\ term_i' = term_i + 1
            /\ UNCHANGED pc
       ELSE /\ pc' = "aborted"
            /\ UNCHANGED <<filtered_df, blocklist_removed, term_i>>
    /\ UNCHANGED <<inputs, crawlVars, matchVars, reportVars>>

-----------------------------------------------------------------------------
(* Step 2: page content (main, lines 370-405; crawl_url, lines 83-131) *)

max_workers == 5
ContentLimit == 5000
PageTitleLimit == 100

\* a slip: the slice [:max_urls] left out
UniqueUrlsUncapped(d, cap) == Unique(Column(d, "url"))

\* filtered_df['url'].unique()[:max_urls]
UniqueUrls(d, cap) == Prefix(Unique(Column(d, "url")), cap)

NoEntries == [u \in {} |-> {}]

\* d[key] = value
Put(d, key, value) == [k \in DOMAIN d \cup {key} |-> IF k = key THEN value ELSE d[k]]

\* the entry "Use sample content" makes for a URL
SampleEntry(url) ==
    [url |-> url,
     title |-> "Sample Title for " \o LastSegment(url),
     h1 |-> "Sample H1 Header for " \o LastSegment(url),
     content |-> "This is sample content for " \o url
                 \o ". It contains various keywords and text.",
     status |-> "success"]

\* the entry of a failed fetch (both except branches build the same dict)
ErrorEntry(url, reason) ==
    [url |-> url, title |-> "", h1 |-> "", content |-> "",
     status |-> "error: " \o reason]

\* the exception object a call ends with, and the result of a future that
\* has none yet
Raised(reason) == [exception |-> reason]
None == [none |-> TRUE]

\* crawl_url(url) on a given answer of the network: the dict it returns, or
\* the exception that leaves it (only requests.RequestException is caught).
\* A page answer carries the texts BeautifulSoup finds in it.
crawl_url(url, response) ==
    IF response.kind = "page"
    THEN [raised |-> FALSE,
          value |-> [url |-> url, title |-> Strip(response.title), h1 |-> response.h1,
                     content |-> Prefix(response.content, ContentLimit),
                     status |-> "success"]]
    ELSE IF response.kind = "RequestException"
    THEN [raised |-> FALSE, value |-> ErrorEntry(url, response.reason)]
    ELSE [raised |-> TRUE, value |-> Raised(response.reason)]

\* the answers of the network the model draws from
Responses ==
    {[kind |-> "page", title |-> " Best Running Shoes ", h1 |-> "Running Shoes",
      content |-> "A guide to running shoes"],
     [kind |-> "page", title |-> "Running shoes near me", h1 |-> "", content |-> "Shoes"],
     [kind |-> "page", title |-> "", h1 |-> "", content |-> ""],
     [kind |-> "RequestException", reason |-> "Read timed out"],
     [kind |-> "Exception", reason |-> "unexpected fault"]}

\* a slip: every result stored under the key the comprehension ended on
future_to_url_last(i) == unique_urls[Len(unique_urls)]

\* future_to_url[future], the future being the i-th submitted
future_to_url(i) == unique_urls[i]

Running == {i \in DOMAIN futures : futures[i].state = "running"}
Pending == {i \in DOMAIN futures : futures[i].state = "pending"}
Finished == {i \in DOMAIN futures : futures[i].state = "finished"}

\* a slip: the loop left at the first future
FirstYielded(done, fs) == done # {} \/ fs = <<>>

\* "for future in as_completed(...)" has handed out every future
AllYielded(done, fs) == done = DOMAIN fs

\* a slip: future.result() without the except branch
FutureEntryUncaught(url, future) ==
    [propagates |-> future.raised, entry |-> future.value]

\* try: result = future.result() ... except Exception: the entry stored for
\* the future's URL; propagates tells whether an exception leaves the loop
FutureEntry(url, future) ==
    [propagates |-> FALSE,
     entry |-> IF future.raised THEN ErrorEntry(url, future.value.exception)
               ELSE future.value]

SelectUrls ==
    /\ pc = "blocklist"
    /\ term_i > Len(Blocklist)
    /\ unique_urls' = UniqueUrls(filtered_df, max_urls)
    /\ crawl_results' = NoEntries
    /\ futures' = <<>>
    /\ yielded' = {}
    /\ completed' = 0
    /\ pc' = IF crawl_option = "Use sample content" THEN "sample_content" ELSE "submit"
    /\ UNCHANGED <<inputs, filterVars, matchVars, reportVars>>

\* "for url in unique_urls: crawl_results[url] = {...}"
SampleContent ==
    /\ pc = "sample_content"
    /\ crawl_results' = [u \in Range(unique_urls) |-> SampleEntry(u)]
    /\ pc' = "match"
    /\ UNCHANGED <<inputs, filterVars, unique_urls, futures, yielded, completed,
                   matchVars, reportVars>>

\* executor.submit(crawl_url, url), one URL of the dict comprehension
Submit ==
    /\ pc = "submit"
    /\ Len(futures) < Len(unique_urls)
    /\ futures' = Append(futures, [url |-> unique_urls[Len(futures) + 1],
                                   state |-> "pending", raised |-> FALSE, value |-> None])
    /\ UNCHANGED <<pc, inputs, filterVars, unique_urls, yielded, completed,
                   crawl_results, matchVars, reportVars>>

\* the comprehension is over: the loop over as_completed starts
AwaitFutures ==
    /\ pc = "submit"
    /\ Len(futures) = Len(unique_urls)
    /\ pc' = IF AllYielded(yielded, futures) THEN "match" ELSE "as_completed"
    /\ UNCHANGED <<inputs, filterVars, crawlVars, matchVars, reportVars>>

\* a free worker thread takes the oldest queued work item
StartFetch ==
    /\ Pending # {}
    /\ Cardinality(Running) < max_workers
    /\ LET i == CHOOSE k \in Pending : \A m \in Pending : k <= m
       IN  futures' = [futures EXCEPT ![i].state = "running"]
    /\ UNCHANGED <<pc, inputs, filterVars, unique_urls, yielded, completed,
                   crawl_results, matchVars, reportVars>>

\* a worker thread ends crawl_url(url) and sets the future's result or exception
FinishFetch ==
    \E i \in Running, response \in network :
        /\ LET r == crawl_url(futures[i].url, response)
           IN  futures' = [futures EXCEPT ![i] = [url |-> futures[i].url,
                                                  state |-> "finished",
                                                  raised |-> r.raised,
                                                  value |-> r.value]]
        /\ UNCHANGED <<pc, inputs, filterVars, unique_urls, yielded, completed,
                       crawl_results, matchVars, reportVars>>

\* one iteration of "for future in as_completed(future_to_url)", and the end of
\* the loop and of the with block once no future is left
CollectResult ==
    \E i \in Finished \ yielded :
        /\ pc = "as_completed"
        /\ LET url == future_to_url(i)
               got == FutureEntry(url, futures[i])
           IN  IF got.propagates
               THEN /\ pc' = "aborted"
                    /\ UNCHANGED <<crawl_results, completed, yielded>>
               ELSE /\ crawl_results' = Put(crawl_results, url, got.entry)
                    /\ completed' = completed + 1
                    /\ yielded' = yielded \cup {i}
                    /\ pc' = IF AllYielded(yielded', futures) THEN "match" ELSE pc
        /\ UNCHANGED <<inputs, filterVars, unique_urls, futures, matchVars, reportVars>>

-----------------------------------------------------------------------------
(* Step 3: keyword presence (main, lines 411-435) *)

\* check_keyword_presence(keyword, text)
check_keyword_presence(keyword, text) ==
    IF text = "" \/ keyword = "" THEN FALSE
    ELSE \E haystack \in {Lower(text)}, needle \in {Lower(keyword)} :
             Contains(haystack, needle)

BoolCount(b) == IF b THEN 1 ELSE 0

\* a slip: the status of the entry not looked at
CrawledWhateverStatus(url, entries) == url \in DOMAIN entries

\* a slip: a page without any text taken as a fetch that failed
CrawledWithText(url, entries) ==
    /\ url \in DOMAIN entries
    /\ entries[url].status = "success"
    /\ entries[url].title # "" \/ entries[url].h1 # "" \/ entries[url].content # ""

\* url in crawl_results and crawl_results[url]['status'] == 'success'
Crawled(url, entries) == url \in DOMAIN entries /\ entries[url].status = "success"

\* row.to_dict() updated with the presence flags
MatchedRow(row, page) ==
    LET in_title == check_keyword_presence(row.keyword, page.title)
        in_h1 == check_keyword_presence(row.keyword, page.h1)
        in_content == check_keyword_presence(row.keyword, page.content)
    IN  [url |-> row.url, keyword |-> row.keyword,
         position |-> row.position, impressions |-> row.impressions,
         in_title |-> in_title, in_h1 |-> in_h1, in_content |-> in_content,
         page_title |-> Prefix(page.title, PageTitleLimit),
         optimization_score |-> BoolCount(in_title) + BoolCount(in_h1) + BoolCount(in_content)]

\* {'url': url, 'keyword': keyword}
NotFoundRow(row) == [url |-> row.url, keyword |-> row.keyword]

\* one iteration of "for idx, row in filtered_df.iterrows()"
MatchRow ==
    /\ pc = "match"
    /\ row_i <= Len(filtered_df)
    /\ LET row == filtered_df[row_i]
       IN  IF Crawled(row.url, crawl_results)
           THEN /\ results' = Append(results, MatchedRow(row, crawl_results[row.url]))
                /\ UNCHANGED urls_not_found
           ELSE /\ urls_not_found' = Append(urls_not_found, NotFoundRow(row))
                /\ UNCHANGED results
    /\ row_i' = row_i + 1
    /\ UNCHANGED <<pc, inputs, filterVars, crawlVars, reportVars>>

-----------------------------------------------------------------------------
(* Step 4: datasets (main, lines 441-468;                                  *)
(* calculate_striking_distance_opportunities, lines 139-183)               *)

\* DataFrame.sort_values(by): pandas sorts with numpy's quicksort, which is
\* not stable, so every order of the rows that respects the keys can result
RECURSIVE SortedOrders(_, _, _)
SortedOrders(rows, by, ascending) ==
    IF rows = <<>> THEN {<<>>}
    ELSE LET InFront(r) == \A j \in DOMAIN rows :
                              IF ascending THEN r[by] <= rows[j][by]
                                           ELSE r[by] >= rows[j][by]
             first == {r \in Range(rows) : InFront(r)}
             At(r) == CHOOSE i \in DOMAIN rows :
                          rows[i] = r /\ \A j \in 1..(i - 1) : rows[j] # r
             Without(i) == [k \in 1..(Len(rows) - 1) |->
                               IF k < i THEN rows[k] ELSE rows[k + 1]]
         IN  UNION {{<<r>> \o rest : rest \in SortedOrders(Without(At(r)), by, ascending)} :
                        r \in first}

\* a slip: ascending=False left out
sort_values_ascending(rows, by, ascending) == SortedOrders(rows, by, TRUE)

sort_values(rows, by, ascending) == SortedOrders(rows, by, ascending)

AllChecksPassed(rows) ==
    LET Keep(r) == r.in_title = TRUE /\ r.in_h1 = TRUE /\ r.in_content = TRUE
    IN  SelectSeq(rows, Keep)

WithGap(rows) ==
    LET Keep(r) == r.in_title = FALSE \/ r.in_h1 = FALSE \/ r.in_content = FALSE
    IN  SelectSeq(rows, Keep)

\* ' | '.join(recommendations)
RECURSIVE Join(_)
Join(strings) ==
    IF strings = <<>> THEN ""
    ELSE IF Len(strings) = 1 THEN strings[1]
    ELSE strings[1] \o " | " \o Join(Tail(strings))

\* the if/elif chain on the position
PositionScore(position) ==
    IF 3 <= position /\ position <= 5 THEN 30
    ELSE IF 6 <= position /\ position <= 10 THEN 20
    ELSE IF 11 <= position /\ position <= 20 THEN 10
    ELSE 0

PositionAdvice(position) ==
    IF 3 <= position /\ position <= 5 THEN <<"Very close to top 3 - high priority">>
    ELSE IF 6 <= position /\ position <= 10 THEN <<"On page 1 - good opportunity">>
    ELSE IF 11 <= position /\ position <= 20 THEN <<"On page 2 - worth optimizing">>
    ELSE <<>>

\* a slip: the points given for a keyword that is in the title
TitleScoreInverted(in_title) == IF in_title THEN 15 ELSE 0

TitleScore(in_title) == IF ~in_title THEN 15 ELSE 0
H1Score(in_h1) == IF ~in_h1 THEN 10 ELSE 0
ContentScore(in_content) == IF ~in_content THEN 5 ELSE 0

\* a slip: >= for >
VolumeScoreFromThreshold(impressions, present) ==
    IF (IF present THEN impressions ELSE 0) >= 1000 THEN 10 ELSE 0

\* row.get('impressions', 0) > 1000
VolumeScore(impressions, present) ==
    IF (IF present THEN impressions ELSE 0) > 1000 THEN 10 ELSE 0

\* one row of calculate_striking_distance_opportunities
Opportunity(row, present) ==
    [url |-> row.url, keyword |-> row.keyword, position |-> row.position,
     opportunity_score |->
         PositionScore(row.position) + TitleScore(row.in_title) + H1Score(row.in_h1)
         + ContentScore(row.in_content) + VolumeScore(row.impressions, present),
     recommendations |->
         Join(PositionAdvice(row.position)
              \o (IF ~row.in_title THEN <<"Add keyword to title tag">> ELSE <<>>)
              \o (IF ~row.in_h1 THEN <<"Add keyword to H1 tag">> ELSE <<>>)
              \o (IF ~row.in_content THEN <<"Include keyword naturally in content">> ELSE <<>>)
              \o (IF VolumeScore(row.impressions, present) > 0
                  THEN <<"High search volume keyword">> ELSE <<>>))]

calculate_striking_distance_opportunities(rows, present) ==
    [i \in DOMAIN rows |-> Opportunity(rows[i], present)]

\* a row of the left frame with the columns merged in from a row of the right
Merged(l, r) ==
    [url |-> l.url, keyword |-> l.keyword, position |-> l.position,
     impressions |-> l.impressions, in_title |-> l.in_title, in_h1 |-> l.in_h1,
     in_content |-> l.in_content, page_title |-> l.page_title,
     optimization_score |-> l.optimization_score,
     opportunity_score |-> r.opportunity_score, recommendations |-> r.recommendations]

\* left.merge(right[...], on=['url', 'keyword'], how='left'): every left row,
\* in order, once per right row with its url and keyword
RECURSIVE merge(_, _)
merge(left, right) ==
    IF left = <<>> THEN <<>>
    ELSE LET l == Head(left)
             SameKey(r) == r.url = l.url /\ r.keyword = l.keyword
             hits == SelectSeq(right, SameKey)
         IN  [i \in DOMAIN hits |-> Merged(l, hits[i])] \o merge(Tail(left), right)

\* results_df is split into the two datasets (lines 441-458)
PrepareDatasets ==
    /\ pc = "match"
    /\ row_i > Len(filtered_df)
    /\ IF Len(results) > 0
       THEN /\ all_checks_passed' = AllChecksPassed(results)
            /\ striking_distance' \in sort_values(WithGap(results), "position", TRUE)
       ELSE /\ all_checks_passed' = <<>>
            /\ striking_distance' = <<>>
    /\ pc' = IF Len(striking_distance') > 0 THEN "opportunities" ELSE "done"
    /\ UNCHANGED <<inputs, filterVars, crawlVars, matchVars, opportunities_df>>

\* opportunities_df = calculate_striking_distance_opportunities(striking_distance)
CalculateOpportunities ==
    /\ pc = "opportunities"
    /\ opportunities_df' =
           calculate_striking_distance_opportunities(striking_distance, has_impressions)
    /\ pc' = "merge"
    /\ UNCHANGED <<inputs, filterVars, crawlVars, matchVars, all_checks_passed,
                   striking_distance>>

\* striking_distance.merge(...).sort_values('opportunity_score', ascending=False)
MergeAndSort ==
    /\ pc = "merge"
    /\ striking_distance' \in
           sort_values(merge(striking_distance, opportunities_df), "opportunity_score", FALSE)
    /\ pc' = "done"
    /\ UNCHANGED <<inputs, filterVars, crawlVars, matchVars, all_checks_passed,
                   opportunities_df>>

-----------------------------------------------------------------------------
(* Runs *)

Urls == <<"https://example.com/page1", "https://example.com/page2",
          "https://example.com/page3", "https://example.com/page4",
          "https://example.com/page5", "https://example.com/page6",
          "https://example.com/page7", "https://example.com/page8">>

Row(url, keyword, position, impressions) ==
    [url |-> url, keyword |-> keyword, position |-> position, impressions |-> impressions]

\* the rows a small upload is made of
RecordPool ==
    {Row(Urls[u], "running shoes", p, 1200) : u \in 1..3, p \in {4, 5}}
    \cup {Row(Urls[1], "Near Me Shoes", 8, 500), Row(Urls[2], "running shoes", 25, 5)}

\* the uploads of at most n rows
Uploads(pool, n) == UNION {[1..k -> pool] : k \in 0..n}

Start ==
    /\ pc = "filter_position"
    /\ filtered_df = <<>>
    /\ blocklist_removed = <<>>
    /\ term_i = 1
    /\ unique_urls = <<>>
    /\ futures = <<>>
    /\ yielded = {}
    /\ completed = 0
    /\ crawl_results = NoEntries
    /\ row_i = 1
    /\ results = <<>>
    /\ urls_not_found = <<>>
    /\ all_checks_passed = <<>>
    /\ striking_distance = <<>>
    /\ opportunities_df = <<>>

\* a small upload through the whole handler
Init ==
    /\ df \in Uploads(RecordPool, MaxRecords)
    /\ has_impressions = TRUE
    /\ position_range = <<3, 20>>
    /\ min_impressions = 10
    /\ blocklist_input \in {<<"">>, <<"Near Me ", "">>}
    /\ max_urls \in 1..SmallMaxUrls
    /\ crawl_option \in {"Crawl URLs automatically", "Use sample content"}
    /\ network = Responses
    /\ Start

Next ==
    \/ FilterPosition
    \/ FilterImpressions
    \/ BlocklistPass
    \/ SelectUrls
    \/ SampleContent
    \/ Submit
    \/ AwaitFutures
    \/ StartFetch
    \/ FinishFetch
    \/ CollectResult
    \/ MatchRow
    \/ PrepareDatasets
    \/ CalculateOpportunities
    \/ MergeAndSort

Spec == Init /\ [][Next]_vars

\* the smallest value of the "Max URLs to crawl" slider
MinMaxUrls == 10

\* an upload of n rows on n different URLs, every row in striking distance,
\* crawled live
InitCrawl ==
    /\ \E n \in 1..MaxCrawlUrls :
           df = [i \in 1..n |-> Row(Urls[i], "running shoes", 4, 1200)]
    /\ has_impressions = TRUE
    /\ position_range = <<3, 20>>
    /\ min_impressions = 10
    /\ blocklist_input = <<"near me">>
    /\ max_urls = MinMaxUrls
    /\ crawl_option = "Crawl URLs automatically"
    /\ network = {r \in Responses : r.kind = "page" => r.h1 # ""}
    /\ Start

NextCrawl ==
    \/ FilterPosition
    \/ FilterImpressions
    \/ BlocklistPass
    \/ SelectUrls
    \/ Submit
    \/ AwaitFutures
    \/ StartFetch
    \/ FinishFetch
    \/ CollectResult

SpecCrawl == InitCrawl /\ [][NextCrawl]_vars

\* the rows and settings the filter runs draw from
FilterPool ==
    {Row(Urls[1], k, p, n) :
        k \in {"Near Me Shoes", "amazon com shoes", "running gear"},
        p \in {8, 25}, n \in {5, 500}}

BlocklistInputs ==
    {<<"">>, <<" Near Me">>, <<"amazon.com", "", "shoes ">>, <<"near me", "SHOES">>}

\* an upload through the three filters
InitFilter ==
    /\ df \in Uploads(FilterPool, MaxRecords)
    /\ has_impressions \in BOOLEAN
    /\ position_range \in {<<3, 20>>, <<1, 50>>}
    /\ min_impressions = 10
    /\ blocklist_input \in BlocklistInputs
    /\ max_urls = MinMaxUrls
    /\ crawl_option = "Crawl URLs automatically"
    /\ network = Responses
    /\ Start

NextFilter ==
    \/ FilterPosition
    \/ FilterImpressions
    \/ BlocklistPass
    \/ SelectUrls

SpecFilter == InitFilter /\ [][NextFilter]_vars

\* the page on which a keyword is found exactly where the flags say
PageWith(keyword, in_title, in_h1, in_content) ==
    [kind |-> "page",
     title |-> IF in_title THEN keyword ELSE "",
     h1 |-> IF in_h1 THEN keyword ELSE "",
     content |-> IF in_content THEN keyword ELSE ""]

ScoreImpressions == {0, 1000, 1001, 1200}

\* the scorer about to be called on one row: every position, every
\* combination of the presence flags, impressions around the threshold
InitScore ==
    \E position \in 1..MaxScorePosition, impressions \in ScoreImpressions,
       in_title \in BOOLEAN, in_h1 \in BOOLEAN, in_content \in BOOLEAN :
        LET row == Row(Urls[1], "running shoes", position, impressions)
            page == PageWith(row.keyword, in_title, in_h1, in_content)
            got == crawl_url(row.url, page)
        IN  /\ df = <<row>>
            /\ has_impressions \in BOOLEAN
            /\ position_range = <<1, 50>>
            /\ min_impressions = 0
            /\ blocklist_input = <<"">>
            /\ max_urls = MinMaxUrls
            /\ crawl_option = "Crawl URLs automatically"
            /\ network = {page}
            /\ pc = "opportunities"
            /\ filtered_df = <<row>>
            /\ blocklist_removed = <<>>
            /\ term_i = 1
            /\ unique_urls = <<row.url>>
            /\ futures = <<[url |-> row.url, state |-> "finished",
                            raised |-> FALSE, value |-> got.value]>>
            /\ yielded = {1}
            /\ completed = 1
            /\ crawl_results = Put(NoEntries, row.url, got.value)
            /\ row_i = 2
            /\ results = <<MatchedRow(row, got.value)>>
            /\ urls_not_found = <<>>
            /\ all_checks_passed = <<>>
            /\ striking_distance = results
            /\ opportunities_df = <<>>

NextScore == CalculateOpportunities

SpecScore == InitScore /\ [][NextScore]_vars

\* the rows and blocklists of the runs checked to their end: a row on each of
\* two URLs, a row the blocklist can remove, a row no filter keeps; no
\* blocklist, a blocklist of one term, and a term with an unclosed bracket
LivePool ==
    {Row(Urls[1], "running shoes", 4, 1200), Row(Urls[2], "running shoes", 5, 1200),
     Row(Urls[1], "Near Me Shoes (men)", 8, 500), Row(Urls[2], "running shoes", 25, 5)}

LiveBlocklistInputs == {<<"">>, <<"near me">>, <<"shoes (men">>}

InitLive ==
    /\ df \in Uploads(LivePool, MaxRecords)
    /\ has_impressions = TRUE
    /\ position_range = <<3, 20>>
    /\ min_impressions = 10
    /\ blocklist_input \in LiveBlocklistInputs
    /\ max_urls \in 1..SmallMaxUrls
    /\ crawl_option \in {"Crawl URLs automatically", "Use sample content"}
    /\ network = Responses
    /\ Start

\* the steps of the main thread (the script run of the button handler)
Handler ==
    \/ FilterPosition
    \/ FilterImpressions
    \/ BlocklistPass
    \/ SelectUrls
    \/ SampleContent
    \/ Submit
    \/ AwaitFutures
    \/ CollectResult
    \/ MatchRow
    \/ PrepareDatasets
    \/ CalculateOpportunities
    \/ MergeAndSort

\* the main thread runs while it has a step to take; an idle worker thread of
\* the pool takes a queued work item; requests.get(url, timeout=timeout)
\* returns or raises, so a running crawl_url ends
Fairness ==
    /\ WF_vars(Handler)
    /\ WF_vars(StartFetch)
    /\ WF_vars(FinishFetch)

SpecLive == InitLive /\ [][Next]_vars /\ Fairness

-----------------------------------------------------------------------------
(* Properties *)

Key(r) == <<r.url, r.keyword>>

\* the rows of d with the url and keyword of key
CountOf(d, key) == Cardinality({i \in DOMAIN d : Key(d[i]) = key})

FiltersOver ==
    pc \notin {"filter_position", "filter_impressions", "blocklist", "aborted"}

CrawlOver == FiltersOver /\ pc \notin {"sample_content", "submit", "as_completed", "aborted"}

Live == crawl_option = "Crawl URLs automatically"

IsFailure(status) == SubSeq(status, 1, 7) = "error: "

\* C1: when the run is over, every row that survived the filters is in exactly
\* one of the datasets fully optimized, striking distance and not found, once:
\* for every url and keyword the three datasets together hold as many rows as
\* the filtered frame does, and hold no other rows.
C1_Partition ==
    pc = "done" =>
        /\ \A r \in Range(filtered_df) :
               CountOf(all_checks_passed, Key(r)) + CountOf(striking_distance, Key(r))
               + CountOf(urls_not_found, Key(r)) = CountOf(filtered_df, Key(r))
        /\ \A r \in Range(all_checks_passed) \cup Range(striking_distance)
                    \cup Range(urls_not_found) :
               CountOf(filtered_df, Key(r)) > 0

\* the entry the crawl owes the i-th future: what its own fetch returned,
\* or the error entry of what it raised
OwnEntry(i) ==
    IF futures[i].raised THEN ErrorEntry(futures[i].url, futures[i].value.exception)
    ELSE futures[i].value

\* C2: once a live crawl is over, the map has exactly one entry per requested
\* URL, each the result of that URL's own fetch, whatever the number of URLs
\* (below and above the pool size) and the order of completion.
C2_OneEntryPerUrl ==
    (CrawlOver /\ Live) =>
        /\ DOMAIN crawl_results = Range(unique_urls)
        /\ Cardinality(DOMAIN crawl_results) = Len(unique_urls)
        /\ Len(futures) = Len(unique_urls)
        /\ completed = Len(unique_urls)
        /\ \A i \in DOMAIN futures :
               /\ futures[i].url = unique_urls[i]
               /\ futures[i].state = "finished"
               /\ crawl_results[unique_urls[i]].url = unique_urls[i]
               /\ crawl_results[unique_urls[i]] = OwnEntry(i)

\* C2 witness: a crawl of more URLs than worker threads is over, with pages
\* and failures among the entries.
C2_Witness ==
    /\ CrawlOver /\ Live
    /\ Len(unique_urls) > max_workers
    /\ Cardinality(DOMAIN crawl_results) = Len(unique_urls)
    /\ \E u, v \in DOMAIN crawl_results :
           crawl_results[u].status = "success" /\ IsFailure(crawl_results[v].status)

\* the fetch of the i-th future failed: crawl_url returned an error entry or
\* an exception left it
FetchFailed(i) ==
    /\ futures[i].state = "finished"
    /\ IF futures[i].raised THEN TRUE ELSE futures[i].value.status # "success"

\* C3: no failed fetch aborts the crawl: the handler never leaves the crawl
\* by an exception, and once the crawl is over every URL has an entry, tagged
\* as a failure for every URL whose fetch failed.
C3_FailuresBecomeEntries ==
    /\ pc # "aborted"
    /\ (CrawlOver /\ Live) =>
           /\ \A u \in Range(unique_urls) : u \in DOMAIN crawl_results
           /\ \A i \in DOMAIN futures :
                  FetchFailed(i) => IsFailure(crawl_results[unique_urls[i]].status)

\* C3 witness: the crawl is over, one fetch raised an unexpected fault, one
\* failed with a handled error, and another URL has its page.
C3_Witness ==
    /\ CrawlOver /\ Live
    /\ \E i, j, k \in DOMAIN futures :
           /\ futures[i].raised
           /\ ~futures[j].raised /\ futures[j].value.status # "success"
           /\ crawl_results[unique_urls[k]].status = "success"
           /\ IsFailure(crawl_results[unique_urls[i]].status)
           /\ IsFailure(crawl_results[unique_urls[j]].status)

\* the rows of the presence loop done so far
Looped == SubSeq(filtered_df, 1, row_i - 1)

HasUrl(d, url) == \E i \in DOMAIN d : d[i].url = url

\* the URL has no entry in the crawl map, or an entry tagged as a failure
Uncrawled(url) ==
    url \notin DOMAIN crawl_results \/ IsFailure(crawl_results[url].status)

\* C4: a filtered row whose URL has no entry, or a failure entry, goes to the
\* not-found rows with its url and keyword only, as does every row of that
\* URL, and no row of that URL is matched, scored or put in another dataset.
C4_UncrawledRowsNotFound ==
    CrawlOver =>
        \A url \in {r.url : r \in Range(Looped)} :
            Uncrawled(url) =>
                /\ \A r \in Range(Looped) :
                       r.url = url =>
                           /\ NotFoundRow(r) \in Range(urls_not_found)
                           /\ CountOf(urls_not_found, Key(r)) = CountOf(Looped, Key(r))
                /\ \A i \in DOMAIN urls_not_found :
                       DOMAIN urls_not_found[i] = {"url", "keyword"}
                /\ ~HasUrl(results, url)
                /\ ~HasUrl(all_checks_passed, url)
                /\ ~HasUrl(striking_distance, url)
                /\ ~HasUrl(opportunities_df, url)

\* C4 witness: the run is over with rows of a URL whose fetch failed and rows
\* of a URL that was not crawled at all, next to a scored row.
C4_Witness ==
    /\ pc = "done"
    /\ \E r, q \in Range(filtered_df) :
           /\ r.url \notin DOMAIN crawl_results
           /\ q.url \in DOMAIN crawl_results
           /\ IsFailure(crawl_results[q.url].status)
           /\ NotFoundRow(r) \in Range(urls_not_found)
           /\ NotFoundRow(q) \in Range(urls_not_found)

Descending(d) ==
    \A i, j \in DOMAIN d : i < j => d[i].opportunity_score >= d[j].opportunity_score

\* the input columns of a row
Source(r) == Row(r.url, r.keyword, r.position, r.impressions)

Places(r) == {i \in DOMAIN filtered_df : filtered_df[i] = Source(r)}

\* every row like b comes before every row like a in the filtered frame
AllBefore(b, a) == \A i \in Places(b), j \in Places(a) : i < j

\* no two rows of d have the same url and keyword
KeysUnique(d) == \A i, j \in DOMAIN d : Key(d[i]) = Key(d[j]) => i = j

\* C5 as claimed: the final striking-distance rows are in descending order of
\* opportunity score, and of two rows with equal scores the one earlier in
\* the filtered frame comes first.  Stated for the runs whose filtered rows
\* differ in url or keyword (so that each output row has one source row) and
\* for the pairs of rows with different positions.
C5_StableOnTies ==
    (pc = "done" /\ Len(opportunities_df) > 0 /\ KeysUnique(filtered_df)) =>
        /\ Descending(striking_distance)
        /\ \A i, j \in DOMAIN striking_distance :
               (/\ i < j
                /\ striking_distance[i].opportunity_score
                       = striking_distance[j].opportunity_score
                /\ striking_distance[i].position < striking_distance[j].position)
               => ~AllBefore(striking_distance[j], striking_distance[i])

\* C5 as amended: the final striking-distance rows are in descending order of
\* opportunity score (the order of rows with equal scores is left open).
C5_Descending ==
    (pc = "done" /\ Len(opportunities_df) > 0) => Descending(striking_distance)

\* C5 witness: the run is over and the sort on the score has put a row with
\* a higher score and a larger position before a row with a lower score.
C5_Witness ==
    /\ pc = "done"
    /\ \E i, j \in DOMAIN striking_distance :
           /\ i < j
           /\ striking_distance[i].opportunity_score > striking_distance[j].opportunity_score
           /\ striking_distance[i].position > striking_distance[j].position

\* the frame the blocklist passes start from
BeforeBlocklist ==
    ImpressionsFilter(PositionFilter(df, position_range), has_impressions, min_impressions)

\* C7: the pass for a blocklist term removes a row exactly when the row's
\* lowercased keyword contains the term as a literal substring, and after all
\* passes the removed rows and the remaining rows are disjoint and together
\* are the rows the passes started from.
C7_RemovedIffContainsTerm ==
    /\ [][(pc = "blocklist" /\ term_i' = term_i + 1) =>
              \A r \in Range(filtered_df) :
                  (r \notin Range(filtered_df'))
                      <=> Contains(Lower(r.keyword), Blocklist[term_i])]_vars
    /\ [](FiltersOver =>
              /\ Range(blocklist_removed) \cap Range(filtered_df) = {}
              /\ \A r \in Range(BeforeBlocklist) :
                     CountOf(blocklist_removed, Key(r)) + CountOf(filtered_df, Key(r))
                         = CountOf(BeforeBlocklist, Key(r)))

InRange(r) == position_range[1] <= r.position /\ r.position <= position_range[2]

EnoughImpressions(r) == has_impressions => r.impressions >= min_impressions

\* C8: the blocklist works on the rows the position filter and the
\* impressions filter have kept: every removed row is within the position
\* range and, when the impressions column is there, has the minimum
\* impressions.
C8_BlocklistAfterOtherFilters ==
    \A r \in Range(blocklist_removed) : InRange(r) /\ EnoughImpressions(r)

\* C8 witness: the filters are over, a row was removed by the blocklist, and
\* a row whose keyword has a blocklist term but which failed the position
\* filter or the impressions filter is not among the removed rows.
C8_Witness ==
    /\ FiltersOver
    /\ blocklist_removed # <<>>
    /\ \E r \in Range(df), t \in Range(Blocklist) :
           /\ Contains(Lower(r.keyword), t)
           /\ ~InRange(r) \/ ~EnoughImpressions(r)
           /\ r \notin Range(blocklist_removed)

\* the rule table of the scorer: rule k fires on a row
RuleFires(k, position, in_title, in_h1, in_content, impressions) ==
    CASE k = 1 -> position \in 3..5
      [] k = 2 -> position \in 6..10
      [] k = 3 -> position \in 11..20
      [] k = 4 -> ~in_title
      [] k = 5 -> ~in_h1
      [] k = 6 -> ~in_content
      [] k = 7 -> impressions > 1000

RulePoints == <<30, 20, 10, 15, 10, 5, 10>>

RuleAdvice ==
    <<"Very close to top 3 - high priority", "On page 1 - good opportunity",
      "On page 2 - worth optimizing", "Add keyword to title tag",
      "Add keyword to H1 tag", "Include keyword naturally in content",
      "High search volume keyword">>

RECURSIVE TableScore(_, _, _, _, _, _)
TableScore(k, position, in_title, in_h1, in_content, impressions) ==
    IF k = 0 THEN 0
    ELSE TableScore(k - 1, position, in_title, in_h1, in_content, impressions)
         + (IF RuleFires(k, position, in_title, in_h1, in_content, impressions)
            THEN RulePoints[k] ELSE 0)

RECURSIVE TableAdvice(_, _, _, _, _, _)
TableAdvice(k, position, in_title, in_h1, in_content, impressions) ==
    IF k = 0 THEN <<>>
    ELSE TableAdvice(k - 1, position, in_title, in_h1, in_content, impressions)
         \o (IF RuleFires(k, position, in_title, in_h1, in_content, impressions)
             THEN <<RuleAdvice[k]>> ELSE <<>>)

\* the impressions the scorer sees for a row
Seen(row) == IF has_impressions THEN row.impressions ELSE 0

\* C6: the scorer gives every row the sum of the points of the rules of the
\* table that fire on (position, in title, in heading, in content,
\* impressions), of which at most one is a position band, and the advice of
\* the firing rules in the order of the table; position 4, keyword in the
\* content only, 1200 impressions gives 65.
C6_ScoreIsRuleTable ==
    pc = "merge" =>
        /\ Len(opportunities_df) = Len(striking_distance)
        /\ \A i \in DOMAIN opportunities_df :
               LET row == striking_distance[i]
                   got == opportunities_df[i]
               IN  /\ got.opportunity_score =
                          TableScore(7, row.position, row.in_title, row.in_h1,
                                     row.in_content, Seen(row))
                   /\ got.recommendations =
                          Join(TableAdvice(7, row.position, row.in_title, row.in_h1,
                                           row.in_content, Seen(row)))
                   /\ Cardinality({k \in 1..3 :
                          RuleFires(k, row.position, row.in_title, row.in_h1,
                                    row.in_content, Seen(row))}) <= 1
                   /\ (/\ row.position = 4 /\ Seen(row) = 1200
                       /\ ~row.in_title /\ ~row.in_h1 /\ row.in_content)
                      => got.opportunity_score = 65

\* C6 witness: the scorer has scored the row of the example at 65.
C6_Witness ==
    /\ pc = "merge"
    /\ \E i \in DOMAIN opportunities_df :
           /\ striking_distance[i].position = 4 /\ Seen(striking_distance[i]) = 1200
           /\ ~striking_distance[i].in_title /\ ~striking_distance[i].in_h1
           /\ striking_distance[i].in_content
           /\ opportunities_df[i].opportunity_score = 65
           /\ opportunities_df[i].recommendations =
                  "Very close to top 3 - high priority | Add keyword to title tag"
                  \o " | Add keyword to H1 tag | High search volume keyword"

PresenceFlags == {"in_title", "in_h1", "in_content"}

\* C9: with the position, the impressions and the other two flags fixed,
\* the score of a row does not go down when one presence flag goes from true
\* to false.
C9_MissingNeverScoresLess ==
    pc = "merge" =>
        \A i \in DOMAIN opportunities_df, flag \in PresenceFlags :
            striking_distance[i][flag] =>
                Opportunity([striking_distance[i] EXCEPT ![flag] = FALSE],
                            has_impressions).opportunity_score
                    >= opportunities_df[i].opportunity_score

\* C9 witness: a row with a presence flag set has been scored, and the same
\* row with the flag cleared scores more.
C9_Witness ==
    /\ pc = "merge"
    /\ \E i \in DOMAIN opportunities_df, flag \in PresenceFlags :
           /\ striking_distance[i][flag]
           /\ Opportunity([striking_distance[i] EXCEPT ![flag] = FALSE],
                          has_impressions).opportunity_score
                  > opportunities_df[i].opportunity_score

Downstream == pc \in {"match", "opportunities", "merge", "done"}

AnalysisBegun ==
    Downstream /\ (row_i > 1 \/ results # <<>> \/ urls_not_found # <<>> \/ pc # "match")

\* C10: in a run with live crawling, matching, scoring and categorizing start
\* only when every dispatched fetch is over and collected, and from the moment
\* the handler has left the crawl the map is not written again.
C10_CrawlIsBarrier ==
    /\ [](Live /\ Downstream =>
              /\ Len(futures) = Len(unique_urls)
              /\ \A i \in DOMAIN futures : futures[i].state = "finished" /\ i \in yielded)
    /\ [][(Live /\ Downstream) => (crawl_results' = crawl_results /\ futures' = futures)]_vars

\* C10 witness: the presence loop is running on the entries of two fetches
\* that both ran on the pool.
C10_Witness ==
    /\ Live /\ AnalysisBegun
    /\ Len(futures) >= 2
    /\ row_i > 1

\* every term of the blocklist is a regular expression
TermsCompile == \A i \in DOMAIN Blocklist : RegexCompiles(Blocklist[i])

\* C11: with every fetch ending and the threads scheduled fairly, every run
\* of the handler comes to its end with the four datasets (striking distance,
\* fully optimized, removed by the blocklist, not found), whatever the fetches
\* return and also when no row survives the filters, in which case the
\* striking-distance, fully-optimized and not-found datasets are empty.
C11_RunYieldsDatasets ==
    /\ <>(pc = "done")
    /\ [](pc = "done" /\ filtered_df = <<>> =>
              all_checks_passed = <<>> /\ striking_distance = <<>> /\ urls_not_found = <<>>)

\* the runs that do not come to their end are those of a blocklist with a
\* term that does not compile: every other run ends, and every run ends or
\* is left by the exception
ValidTermsRunFinishes ==
    /\ TermsCompile => <>(pc = "done")
    /\ <>(pc \in {"done", "aborted"})
    /\ [](pc = "aborted" => ~TermsCompile)

\* the index of the first blocklist term the pass for which matches the
\* keyword, 0 when no term does
FirstMatch(keyword) ==
    LET Hits == {t \in DOMAIN Blocklist : KeywordHasTerm(keyword, Blocklist[t])}
    IN  IF Hits = {} THEN 0 ELSE CHOOSE t \in Hits : \A u \in Hits : t <= u

\* the rows the passes started from whose first matching term is the t-th
FirstMatchedBy(t) ==
    LET Keep(r) == FirstMatch(r.keyword) = t
    IN  SelectSeq(BeforeBlocklist, Keep)

\* the rows first matched by the terms 1..n, term by term
RECURSIVE FirstMatchedUpTo(_)
FirstMatchedUpTo(n) ==
    IF n = 0 THEN <<>> ELSE FirstMatchedUpTo(n - 1) \o FirstMatchedBy(n)

\* the terms the lowercased keyword contains
TermsIn(keyword) == {t \in DOMAIN Blocklist : Contains(Lower(keyword), Blocklist[t])}

Copies(d, r) == Cardinality({i \in DOMAIN d : d[i] = r})

\* C12: whatever the blocklist, each row is recorded as removed by the first
\* term that matches it and by no later term: after the passes for the terms
\* 1..n the removed rows are, term by term in blocklist order, the rows whose
\* first matching term it is; so the removed rows hold a row as often as the
\* frame the passes started from holds it, and a row whose keyword has two or
\* more terms is there once for each time it is in that frame.
C12_RemovedOnceByFirstTerm ==
    pc \notin {"filter_position", "filter_impressions"} =>
        /\ blocklist_removed = FirstMatchedUpTo(term_i - 1)
        /\ \A r \in Range(blocklist_removed) :
               Copies(blocklist_removed, r) = Copies(BeforeBlocklist, r)
        /\ FiltersOver =>
               \A r \in Range(BeforeBlocklist) :
                   Cardinality(TermsIn(r.keyword)) >= 2 =>
                       Copies(blocklist_removed, r) = Copies(BeforeBlocklist, r)

\* C12 witness: the passes are over, a row whose keyword has two terms of the
\* blocklist is among the removed rows once, and it was removed by the first
\* term: it is recorded before a row of the second term that came before it
\* in the frame.
C12_Witness ==
    /\ FiltersOver
    /\ \E i, j \in DOMAIN blocklist_removed :
           /\ i < j
           /\ Cardinality(TermsIn(blocklist_removed[i].keyword)) >= 2
           /\ Copies(blocklist_removed, blocklist_removed[i]) = 1
           /\ FirstMatch(blocklist_removed[i].keyword) = 1
           /\ FirstMatch(blocklist_removed[j].keyword) = 2
           /\ \E a, b \in DOMAIN BeforeBlocklist :
                  /\ a < b
                  /\ BeforeBlocklist[a] = blocklist_removed[j]
                  /\ BeforeBlocklist[b] = blocklist_removed[i]

\* the URL was fetched and its page gave no title, no heading and no text
EmptyPage(url) ==
    /\ url \in DOMAIN crawl_results
    /\ crawl_results[url].status = "success"
    /\ crawl_results[url].title = ""
    /\ crawl_results[url].h1 = ""
    /\ crawl_results[url].content = ""

NoPresence(r) == ~r.in_title /\ ~r.in_h1 /\ ~r.in_content

\* C13: a filtered row whose URL was fetched with success and gave an empty
\* title, heading and text is not among the not-found rows; the presence loop
\* gives it three false flags; and at the end of the run it is a
\* striking-distance row (not a fully optimized one) with the opportunity
\* score and the recommendations of a row with no presence at all.
C13_EmptyPageScored ==
    CrawlOver =>
        \A r \in Range(Looped) :
            EmptyPage(r.url) =>
                /\ ~HasUrl(urls_not_found, r.url)
                /\ \E i \in DOMAIN results : Source(results[i]) = r
                /\ \A i \in DOMAIN results :
                       results[i].url = r.url =>
                           NoPresence(results[i]) /\ results[i].optimization_score = 0
                /\ pc = "done" =>
                       /\ ~HasUrl(all_checks_passed, r.url)
                       /\ \E i \in DOMAIN striking_distance :
                              /\ Source(striking_distance[i]) = r
                              /\ NoPresence(striking_distance[i])
                              /\ striking_distance[i].opportunity_score =
                                     TableScore(7, r.position, FALSE, FALSE, FALSE, Seen(r))
                              /\ striking_distance[i].recommendations =
                                     Join(TableAdvice(7, r.position, FALSE, FALSE, FALSE,
                                                      Seen(r)))

\* C13 witness: the run is over, the page of a row at position 4 with 1200
\* impressions was fetched empty, and the row is a striking-distance row
\* with the score 70.
C13_Witness ==
    /\ pc = "done" /\ Live
    /\ \E r \in Range(filtered_df), i \in DOMAIN striking_distance :
           /\ EmptyPage(r.url)
           /\ r.position = 4 /\ r.impressions = 1200
           /\ Source(striking_distance[i]) = r
           /\ NoPresence(striking_distance[i])
           /\ striking_distance[i].opportunity_score = 70
           /\ striking_distance[i].recommendations =
                  "Very close to top 3 - high priority | Add keyword to title tag"
                  \o " | Add keyword to H1 tag | Include keyword naturally in content"
                  \o " | High search volume keyword"

\* the URLs of the filtered rows
DistinctUrls == {filtered_df[i].url : i \in DOMAIN filtered_df}

\* the index of the first filtered row of the URL
FirstAt(url) ==
    CHOOSE i \in DOMAIN filtered_df :
        filtered_df[i].url = url /\ \A j \in 1..(i - 1) : filtered_df[j].url # url

\* the number of different URLs in the filtered rows before the first of url
DistinctBefore(url) == Cardinality({filtered_df[j].url : j \in 1..(FirstAt(url) - 1)})

\* the URL is one of the first max_urls different URLs of the filtered rows
WithinCap(url) == url \in DistinctUrls /\ DistinctBefore(url) < max_urls

\* C14: the fetches are those of the first max_urls different URLs of the
\* filtered rows, in the order of the rows, one per URL, and a fetch once
\* started is not started again; no URL beyond the cap gets a fetch or an
\* entry, every row of such a URL is a not-found row and in no other dataset,
\* and a run over more than max_urls different URLs ends with not-found rows
\* whatever the fetches return.
C14_OnlyFirstMaxUrlsFetched ==
    /\ [](FiltersOver =>
              /\ Len(futures) <= max_urls
              /\ \A i \in DOMAIN futures :
                     WithinCap(futures[i].url) /\ DistinctBefore(futures[i].url) = i - 1
              /\ \A u \in DOMAIN crawl_results : WithinCap(u)
              /\ \A r \in Range(Looped) :
                     ~WithinCap(r.url) =>
                         /\ NotFoundRow(r) \in Range(urls_not_found)
                         /\ ~HasUrl(results, r.url)
                         /\ ~HasUrl(all_checks_passed, r.url)
                         /\ ~HasUrl(striking_distance, r.url)
              /\ (pc = "done" /\ Cardinality(DistinctUrls) > max_urls) =>
                     urls_not_found # <<>>)
    /\ [][\A i \in DOMAIN futures :
              futures[i].state # "pending" =>
                  /\ i \in DOMAIN futures'
                  /\ futures'[i].url = futures[i].url
                  /\ futures'[i].state # "pending"
                  /\ futures[i].state = "finished" => futures'[i] = futures[i]]_vars

\* C14 witness: a live run over more different URLs than max_urls is over,
\* every fetch gave a page, a row was matched and a row beyond the cap is a
\* not-found row.
C14_Witness ==
    /\ pc = "done" /\ Live
    /\ Cardinality(DistinctUrls) > max_urls
    /\ Len(futures) = max_urls
    /\ \A u \in DOMAIN crawl_results : crawl_results[u].status = "success"
    /\ results # <<>>
    /\ \E r \in Range(filtered_df) :
           ~WithinCap(r.url) /\ NotFoundRow(r) \in Range(urls_not_found)

=============================================================================
